---- MODULE Spec2Model ----
(***************************************************************************)
(* Model of the Stockify image proxy (src/worker.js): one Worker fetch     *)
(* handler that resolves a subcode, an EAN or a name to a product image by *)
(* searching DuckDuckGo and checking candidate pages.                      *)
(*                                                                         *)
(* JavaScript strings are sequences of one-character strings, so that      *)
(* trim, startsWith, includes and the regular expressions are computed     *)
(* character by character as the code computes them.  null / undefined is  *)
(* the value Null.                                                         *)
(***************************************************************************)
EXTENDS Integers, Sequences, FiniteSets, TLC

Null == <<"<null>">>

(* ------------------------------------------------------------------ *)
(* Bounds of the model                                                 *)
(* ------------------------------------------------------------------ *)

\* Number of links in the longest result page the search engine returns.
MaxLinks == 9

\* Length of the longest token list similarity is called with on its own.
MaxTokens == 3

(* ------------------------------------------------------------------ *)
(* Strings                                                             *)
(* ------------------------------------------------------------------ *)

DigitChars == <<"0", "1", "2", "3", "4", "5", "6", "7", "8", "9">>

UpperChars == <<"A", "B", "C", "D", "E", "F", "G", "H", "I", "J", "K", "L", "M",
                "N", "O", "P", "Q", "R", "S", "T", "U", "V", "W", "X", "Y", "Z", "É">>

LowerChars == <<"a", "b", "c", "d", "e", "f", "g", "h", "i", "j", "k", "l", "m",
                "n", "o", "p", "q", "r", "s", "t", "u", "v", "w", "x", "y", "z", "é">>

Range(f) == {f[i] : i \in DOMAIN f}

DigitSet == Range(DigitChars)

LetterSet == Range(UpperChars) \cup Range(LowerChars)

SpaceSet == {" ", "\t", "\n"}

IsDigit(c) == c \in DigitSet

\* \p{L}, for the letters of the model's alphabet
IsLetter(c) == c \in LetterSet

\* \s of the regular expressions and the white space String.prototype.trim removes
IsSpace(c) == c \in SpaceSet

LowerMap ==
    [c \in Range(UpperChars) |->
        LowerChars[CHOOSE i \in DOMAIN UpperChars : UpperChars[i] = c]]

\* String.prototype.toLowerCase on one character
LowerChar(c) == IF c \in DOMAIN LowerMap THEN LowerMap[c] ELSE c

toLowerCase(s) == [i \in DOMAIN s |-> LowerChar(s[i])]

\* decimal digits of a natural number below 100
NatStr(n) == IF n < 10 THEN <<DigitChars[n + 1]>>
             ELSE <<DigitChars[(n \div 10) + 1], DigitChars[(n % 10) + 1]>>

Slice(s, from, to) == IF from > to THEN << >> ELSE SubSeq(s, from, to)

\* s.substring(from - 1): the rest of s from position from on
From(s, from) == Slice(s, from, Len(s))

\* true when p occurs in s at position i (1-based)
MatchAt(s, i, p) ==
    /\ i >= 1
    /\ i + Len(p) - 1 <= Len(s)
    /\ \A k \in 1..Len(p) : s[i + k - 1] = p[k]

\* String.prototype.startsWith
startsWith(s, p) == MatchAt(s, 1, p)

\* String.prototype.includes
includes(s, p) == \E i \in 1..(Len(s) + 1) : MatchAt(s, i, p)

\* position of the first character of s at or after from that lies in stop, Len(s)+1 when none
RECURSIVE FirstOf(_, _, _)
FirstOf(s, from, stop) ==
    IF from > Len(s) THEN Len(s) + 1
    ELSE IF s[from] \in stop THEN from
    ELSE FirstOf(s, from + 1, stop)

\* position of the first character of s at or after from that lies outside skip, Len(s)+1 when none
RECURSIVE FirstNotOf(_, _, _)
FirstNotOf(s, from, skip) ==
    IF from > Len(s) THEN Len(s) + 1
    ELSE IF s[from] \notin skip THEN from
    ELSE FirstNotOf(s, from + 1, skip)

\* position of the last character of s at or before to that lies outside skip, 0 when none
RECURSIVE LastNotOf(_, _, _)
LastNotOf(s, to, skip) ==
    IF to < 1 THEN 0
    ELSE IF s[to] \notin skip THEN to
    ELSE LastNotOf(s, to - 1, skip)

\* String.prototype.trim
trim(s) == Slice(s, FirstNotOf(s, 1, SpaceSet), LastNotOf(s, Len(s), SpaceSet))

\* (x || ""): a missing or empty query parameter reads as the empty string
OrEmpty(x) == IF x = Null THEN << >> ELSE x

\* JavaScript truthiness of a string-or-null value
Truthy(x) == x # Null /\ x # << >>

(* ------------------------------------------------------------------ *)
(* URLs: new URL(s), searchParams.get, decodeURIComponent              *)
(* ------------------------------------------------------------------ *)

\* the value standing for a thrown exception (TypeError: Invalid URL, URIError)
Threw == <<"<threw>">>

HexChars == DigitSet \cup {"A", "B", "C", "D", "E", "F", "a", "b", "c", "d", "e", "f"}

\* the character a percent-escape %xy denotes
ByteChar(x, y) ==
    LET h == <<LowerChar(x), LowerChar(y)>>
    IN  CASE h = <<"3", "a">> -> ":"
          [] h = <<"2", "f">> -> "/"
          [] h = <<"3", "f">> -> "?"
          [] h = <<"3", "d">> -> "="
          [] h = <<"2", "6">> -> "&"
          [] h = <<"2", "5">> -> "%"
          [] h = <<"2", "0">> -> " "
          [] OTHER -> "~"

IsEscapeAt(s, i) ==
    /\ i + 2 <= Len(s)
    /\ s[i] = "%"
    /\ s[i + 1] \in HexChars
    /\ s[i + 2] \in HexChars

\* percent-decoding of URLSearchParams: '+' is a space, a malformed escape is kept
RECURSIVE FormDecode(_)
FormDecode(s) ==
    IF s = << >> THEN << >>
    ELSE IF IsEscapeAt(s, 1) THEN <<ByteChar(s[2], s[3])>> \o FormDecode(From(s, 4))
    ELSE IF s[1] = "+" THEN <<" ">> \o FormDecode(Tail(s))
    ELSE <<s[1]>> \o FormDecode(Tail(s))

\* a decoded character in front of the decoded rest, unless the rest threw
DecodedCons(c, rest) == IF rest = Threw THEN Threw ELSE <<c>> \o rest

\* decodeURIComponent: a malformed escape throws URIError
RECURSIVE decodeURIComponent(_)
decodeURIComponent(s) ==
    IF s = << >> THEN << >>
    ELSE IF s[1] # "%" THEN DecodedCons(s[1], decodeURIComponent(Tail(s)))
    ELSE IF ~IsEscapeAt(s, 1) THEN Threw
    ELSE DecodedCons(ByteChar(s[2], s[3]), decodeURIComponent(From(s, 4)))

\* position of the last occurrence of character c in s at or before to, 0 when there is none
RECURSIVE LastOf(_, _, _)
LastOf(s, to, c) ==
    IF to < 1 THEN 0
    ELSE IF s[to] = c THEN to
    ELSE LastOf(s, to - 1, c)

SchemeHttp == <<"h", "t", "t", "p">>
SchemeHttps == <<"h", "t", "t", "p", "s">>

DefaultPort(scheme) == IF scheme = SchemeHttps THEN <<"4", "4", "3">> ELSE <<"8", "0">>

\* the outcome of new URL(s) when it throws TypeError: Invalid URL
InvalidURL ==
    [valid |-> FALSE, protocol |-> << >>, hostname |-> << >>, port |-> << >>,
     pathname |-> << >>, search |-> << >>, origin |-> << >>]

\* a URL whose scheme is neither http nor https: empty hostname, origin "null"
OpaqueURL(scheme, rest) ==
    [valid |-> TRUE, protocol |-> scheme, hostname |-> << >>, port |-> << >>,
     pathname |-> rest, search |-> << >>, origin |-> <<"n", "u", "l", "l">>]

\* s[1..colon-1] is a scheme followed by ':'
IsScheme(s, colon) ==
    /\ colon <= Len(s)
    /\ s[colon] = ":"
    /\ colon > 1
    /\ IsLetter(s[1])
    /\ \A i \in 1..(colon - 1) :
          IsLetter(s[i]) \/ IsDigit(s[i]) \/ s[i] \in {"+", "-", "."}

\* the parsed URL, from its pieces
MakeURL(scheme, host, port, path, query) ==
    [valid    |-> TRUE,
     protocol |-> scheme,
     hostname |-> host,
     port     |-> port,
     pathname |-> IF path = << >> THEN <<"/">> ELSE path,
     search   |-> IF Len(query) <= 1 THEN << >> ELSE query,
     origin   |-> scheme \o <<":", "/", "/">> \o host
                    \o (IF port = << >> THEN << >> ELSE <<":">> \o port)]

\* host and port: hostport is the authority after its userinfo, colonAt the
\* position of its last ':' (0 when none); the default port is dropped
ParseHostPort(scheme, hostport, colonAt, path, query) ==
    IF colonAt = 0
    THEN IF hostport = << >> THEN InvalidURL
         ELSE MakeURL(scheme, toLowerCase(hostport), << >>, path, query)
    ELSE IF colonAt = 1 \/ \E i \in (colonAt + 1)..Len(hostport) : ~IsDigit(hostport[i])
    THEN InvalidURL
    ELSE IF From(hostport, colonAt + 1) = DefaultPort(scheme)
    THEN MakeURL(scheme, toLowerCase(Slice(hostport, 1, colonAt - 1)), << >>, path, query)
    ELSE MakeURL(scheme, toLowerCase(Slice(hostport, 1, colonAt - 1)),
                 From(hostport, colonAt + 1), path, query)

DropUserinfo(auth, at) == From(auth, at + 1)

ParseAuthority(scheme, hostport, path, query) ==
    ParseHostPort(scheme, hostport, LastOf(hostport, Len(hostport), ":"), path, query)

\* path and query: pEnd is the end of the path, qEnd the end of the query
ParseTail(scheme, s, aStart, aEnd, pEnd, qEnd) ==
    ParseAuthority(scheme,
                   DropUserinfo(Slice(s, aStart, aEnd - 1),
                                LastOf(Slice(s, aStart, aEnd - 1), aEnd - aStart, "@")),
                   Slice(s, aEnd, pEnd - 1), Slice(s, pEnd, qEnd - 1))

ParsePath(scheme, s, aStart, aEnd, pEnd) ==
    ParseTail(scheme, s, aStart, aEnd, pEnd, FirstOf(s, pEnd, {"#"}))

ParseFromAuthority(scheme, s, aStart, aEnd) ==
    ParsePath(scheme, s, aStart, aEnd, FirstOf(s, aEnd, {"?", "#"}))

\* the slashes after the scheme are skipped, however many
ParseSpecial(scheme, s, aStart) ==
    ParseFromAuthority(scheme, s, aStart, FirstOf(s, aStart, {"/", "\\", "?", "#"}))

ParseWithScheme(s, colon, scheme) ==
    IF scheme \notin {SchemeHttp, SchemeHttps} THEN OpaqueURL(scheme, From(s, colon + 1))
    ELSE ParseSpecial(scheme, s, FirstNotOf(s, colon + 1, {"/", "\\"}))

ParseAtColon(s, colon) ==
    IF ~IsScheme(s, colon) THEN InvalidURL
    ELSE ParseWithScheme(s, colon, toLowerCase(Slice(s, 1, colon - 1)))

\* new URL(s) without a base, for http and https URLs; InvalidURL when s has
\* no scheme or no host.  Any other scheme gives a URL with an empty hostname
\* and the origin "null".
ParseURL(s) == ParseAtColon(s, FirstOf(s, 1, {":", "/", "?", "#"}))

\* one name=value piece of a query string; eq is the position of its '='
QueryPair(item, eq) ==
    [name |-> FormDecode(Slice(item, 1, eq - 1)), value |-> FormDecode(From(item, eq + 1))]

\* the value of the first piece of query q (without its '?') whose name is name, or null
RECURSIVE QueryGet(_, _)
QueryItemGet(q, name, amp, pair) ==
    IF amp > 1 /\ pair.name = name THEN pair.value
    ELSE QueryGet(From(q, amp + 1), name)

QueryGetAt(q, name, amp) ==
    QueryItemGet(q, name, amp,
                 QueryPair(Slice(q, 1, amp - 1), FirstOf(Slice(q, 1, amp - 1), 1, {"="})))

QueryGet(q, name) ==
    IF q = << >> THEN Null ELSE QueryGetAt(q, name, FirstOf(q, 1, {"&"}))

\* u.searchParams.get(name): the first value of that name, or null
SearchParamGet(u, name) == IF u.search = << >> THEN Null ELSE QueryGet(Tail(u.search), name)

(* ------------------------------------------------------------------ *)
(* Candidate Source: the link pipeline of ddgLinks                     *)
(* ------------------------------------------------------------------ *)

DuckHost == <<"d", "u", "c", "k", "d", "u", "c", "k", "g", "o", ".", "c", "o", "m">>

BringoHost == <<"b", "r", "i", "n", "g", "o", ".", "m", "a">>

\* the cap of links.slice(0, 8)
MaxCandidates == 8

\* url.startsWith("//") ? "https:" + url : url
FixProtocolRelative(url) ==
    IF startsWith(url, <<"/", "/">>) THEN SchemeHttps \o <<":">> \o url ELSE url

\* decodeURIComponent(raw), the link itself when that throws
DecodedOr(url, dec) == IF dec = Threw THEN url ELSE dec

\* if (raw) return decodeURIComponent(raw)
UnwrapRaw(url, raw) == IF Truthy(raw) THEN DecodedOr(url, decodeURIComponent(raw)) ELSE url

UnwrapParsed(url, u) ==
    IF ~u.valid THEN url
    ELSE IF includes(u.hostname, DuckHost) /\ startsWith(u.pathname, <<"/", "l", "/">>)
    THEN UnwrapRaw(url, SearchParamGet(u, <<"u", "d", "d", "g">>))
    ELSE url

\* the redirect unwrapping; every exception is swallowed and the link kept as it is
Unwrap(url) == UnwrapParsed(url, ParseURL(url))

HostIncludesDomain(u) == u.valid /\ includes(u.hostname, BringoHost)

\* the filter: new URL(u2).hostname.includes("bringo.ma"), false when new URL throws
DomainFilter(u2) == HostIncludesDomain(ParseURL(u2))

\* a variant of Take without the cap
TakeAll(seq, n) == seq

\* the first n elements of a sequence: Array.prototype.slice(0, n)
Take(seq, n) == Slice(seq, 1, IF Len(seq) < n THEN Len(seq) ELSE n)

\* ddgLinks after the search page was read: hrefs are the href values of the
\* result__a anchors, in document order
LinkPipeline(hrefs) ==
    Take(SelectSeq([i \in DOMAIN hrefs |-> Unwrap(FixProtocolRelative(hrefs[i]))], DomainFilter),
         MaxCandidates)

(* ------------------------------------------------------------------ *)
(* HTML extractors                                                     *)
(*                                                                     *)
(* A page is a record: text is the body as the token tests see it, and *)
(* ogImage, imgSrc, ogTitle, title are the first captures of the four  *)
(* patterns of extractImage and extractTitle (Null when the pattern    *)
(* does not match).                                                    *)
(* ------------------------------------------------------------------ *)

\* imageUrl = new URL(candidate).origin + imageUrl
MakeAbsolute(u, imageUrl) == IF u.valid THEN u.origin \o imageUrl ELSE Threw

\* lines 153-159: imageUrl is the first capture of the two patterns, or null
FixRelative(candidate, imageUrl) ==
    IF ~Truthy(imageUrl) THEN Null
    ELSE IF startsWith(imageUrl, <<"/">>) THEN MakeAbsolute(ParseURL(candidate), imageUrl)
    ELSE imageUrl

extractImage(candidate, html) ==
    FixRelative(candidate, IF Truthy(html.ogImage) THEN html.ogImage ELSE html.imgSrc)

extractTitle(html) ==
    IF Truthy(html.ogTitle) THEN html.ogTitle
    ELSE IF html.title # Null THEN html.title
    ELSE << >>

(* ------------------------------------------------------------------ *)
(* Acceptance tests                                                    *)
(* ------------------------------------------------------------------ *)

\* the positions \s* can end at when it starts at i
SpacesFrom(s, i) == i..FirstNotOf(s, i, SpaceSet)

\* the positions a literal can end at when it starts at a position of from
AfterLit(s, from, lit) ==
    {i + Len(lit) : i \in {k \in from : MatchAt(s, k, lit)}}

\* the positions at which the label  Num(?:é|e)ro\s+du\s+produit\s*:?\s*  can end
\* when it starts at i; s and the literals are in lower case (flag i)
LabelEnds(s, i) ==
    LET p1 == AfterLit(s, {i}, <<"n", "u", "m">>)
        p2 == AfterLit(s, p1, <<"é">>) \cup AfterLit(s, p1, <<"e">>)
        p3 == AfterLit(s, p2, <<"r", "o">>)
        p4 == UNION {SpacesFrom(s, j) \ {j} : j \in p3}
        p5 == AfterLit(s, p4, <<"d", "u">>)
        p6 == UNION {SpacesFrom(s, j) \ {j} : j \in p5}
        p7 == AfterLit(s, p6, <<"p", "r", "o", "d", "u", "i", "t">>)
        p8 == UNION {SpacesFrom(s, j) : j \in p7}
        p9 == p8 \cup AfterLit(s, p8, <<":">>)
    IN  UNION {SpacesFrom(s, j) : j \in p9}

\* a variant in which the label is required before the number
containsProductNumberLabelled(html, num) ==
    \E i \in 1..(Len(html) + 1) :
        \E k \in LabelEnds(toLowerCase(html), i) :
            MatchAt(toLowerCase(html), k, toLowerCase(num))

\* new RegExp("(label)?" + escapeReg(num), "i").test(html): the escaped num
\* matches itself, and flag i compares without case
containsProductNumber(html, num) ==
    LET h == toLowerCase(html)
        n == toLowerCase(num)
    IN  \E i \in 1..(Len(h) + 1) :
            \/ MatchAt(h, i, n)
            \/ \E k \in LabelEnds(h, i) : MatchAt(h, k, n)

\* /^\d{12,14}$/.test(ean)
IsEan(ean) ==
    /\ Len(ean) >= 12
    /\ Len(ean) <= 14
    /\ \A i \in DOMAIN ean : IsDigit(ean[i])

(* ------------------------------------------------------------------ *)
(* Text normalizer and similarity                                      *)
(* ------------------------------------------------------------------ *)

\* \w of a regular expression without the u flag
IsWord(c) == (IsLetter(c) /\ c \notin {"é", "É"}) \/ IsDigit(c) \/ c = "_"

\* \b just before position i
BoundaryAt(s, i) ==
    LET before == i > 1 /\ IsWord(s[i - 1])
        after  == i <= Len(s) /\ IsWord(s[i])
    IN  before # after

\* the end (exclusive) of the run of digits that starts at i
DigitRunEnd(s, i) == FirstNotOf(s, i, DigitSet)

\* the end (exclusive) of the match of \bGD\d{3,}\b at i, 0 when it does not match
GdMatchEnd(s, i) ==
    LET e == DigitRunEnd(s, i + 2)
    IN  IF /\ BoundaryAt(s, i)
           /\ i + 1 <= Len(s)
           /\ LowerChar(s[i]) = "g"
           /\ LowerChar(s[i + 1]) = "d"
           /\ e - (i + 2) >= 3
           /\ BoundaryAt(s, e)
        THEN e ELSE 0

\* the end (exclusive) of the match of \b\d{6,}\b at i, 0 when it does not match
LongDigitsMatchEnd(s, i) ==
    LET e == DigitRunEnd(s, i)
    IN  IF BoundaryAt(s, i) /\ e - i >= 6 /\ BoundaryAt(s, e) THEN e ELSE 0

\* the end (exclusive) of the match of \([^)]*\) at i, 0 when it does not match
ParenMatchEnd(s, i) ==
    IF s[i] = "(" /\ FirstOf(s, i + 1, {")"}) <= Len(s)
    THEN FirstOf(s, i + 1, {")"}) + 1 ELSE 0

\* s.replace(re, " ") for the three patterns above; kind selects the pattern
MatchEnd(kind, s, i) ==
    CASE kind = "gd"     -> GdMatchEnd(s, i)
      [] kind = "digits" -> LongDigitsMatchEnd(s, i)
      [] kind = "paren"  -> ParenMatchEnd(s, i)

RECURSIVE ReplaceFrom(_, _, _)
ReplaceFrom(kind, s, i) ==
    IF i > Len(s) THEN << >>
    ELSE LET e == MatchEnd(kind, s, i)
         IN  IF e > 0 THEN <<" ">> \o ReplaceFrom(kind, s, e)
             ELSE <<s[i]>> \o ReplaceFrom(kind, s, i + 1)

\* replace(/[^\p{L}\p{N}\s]/gu, " ")
StripPunct(s) ==
    [i \in DOMAIN s |->
        IF IsLetter(s[i]) \/ IsDigit(s[i]) \/ IsSpace(s[i]) THEN s[i] ELSE " "]

\* replace(/\s+/g, " ")
RECURSIVE CollapseSpaces(_)
CollapseSpaces(s) ==
    IF s = << >> THEN << >>
    ELSE IF IsSpace(s[1])
         THEN <<" ">> \o CollapseSpaces(From(s, FirstNotOf(s, 1, SpaceSet)))
         ELSE <<s[1]>> \o CollapseSpaces(Tail(s))

cleanName(n) ==
    trim(CollapseSpaces(StripPunct(
        ReplaceFrom("paren", ReplaceFrom("digits", ReplaceFrom("gd", n, 1), 1), 1))))

\* s.split(/\s+/).filter(Boolean)
RECURSIVE SplitWords(_)
SplitWords(s) ==
    IF s = << >> THEN << >>
    ELSE IF IsSpace(s[1]) THEN SplitWords(Tail(s))
    ELSE LET e == FirstOf(s, 1, SpaceSet)
         IN  <<Slice(s, 1, e - 1)>> \o SplitWords(From(s, e))

tokens(s) == SplitWords(toLowerCase(cleanName(s)))

\* a variant of similarity that normalises by the first set alone
similarityByFirst(a, b) ==
    [num  |-> Cardinality(Range(a) \cap Range(b)),
     den2 |-> IF Cardinality(Range(a)) < 1 THEN 1
              ELSE Cardinality(Range(a)) * Cardinality(Range(a))]

\* a variant of similarity that works on the lists, duplicates included
similarityOfLists(a, b) ==
    [num  |-> Cardinality({i \in DOMAIN a : a[i] \in Range(b)}),
     den2 |-> IF Len(a) * Len(b) < 1 THEN 1 ELSE Len(a) * Len(b)]

\* A score is the number num / sqrt(den2), kept exact: den2 is the square of
\* Math.max(1, Math.sqrt(A.size * B.size)).
similarity(a, b) ==
    LET A == Range(a)
        B == Range(b)
        inter == Cardinality({x \in A : x \in B})
        prod  == Cardinality(A) * Cardinality(B)
    IN  [num |-> inter, den2 |-> IF prod < 1 THEN 1 ELSE prod]

\* the literal scores 1.0 and 0
ScoreOne == [num |-> 1, den2 |-> 1]
ScoreZero == [num |-> 0, den2 |-> 1]

\* a variant of the threshold test with 0.4 for 0.6
AtLeastFourTenths(score) == 100 * score.num * score.num >= 16 * score.den2

\* score >= 0.6, that is num / sqrt(den2) >= 6/10
AtLeastThreshold(score) == 100 * score.num * score.num >= 36 * score.den2

(* ------------------------------------------------------------------ *)
(* The inputs: requests, search result pages, candidate pages          *)
(* ------------------------------------------------------------------ *)

Reqs == {1, 2}

SubcodeText == <<"6", "9", "4", "0", "6", "2">>

EanText == <<"3", "6", "1", "6", "4", "7", "9", "5", "4", "0", "2", "7", "4">>

NameText == <<"S", "a", "l", "o", "n", " ", "B", "a", "s", " ", "L", "a", "n", "k", "a",
              " ", "(", "G", "D", "1", "2", "3", "4", ")">>

JumiaHost == <<"j", "u", "m", "i", "a", ".", "m", "a">>

\* the values of the query parameters; Null is an absent parameter
SiteValues == {Null, JumiaHost}
SubcodeValues == {Null, <<" ">>, <<" ">> \o SubcodeText}
EanValues == {Null, EanText, SubSeq(EanText, 1, 11), EanText \o <<"1", "2">>,
              SubSeq(EanText, 1, 12) \o <<"x">>}
NameValues == {Null, <<" ", " ">>, NameText}

Requests ==
    [site : SiteValues, subcode : SubcodeValues, ean : EanValues,
     name : NameValues, debug : BOOLEAN]

NoRequest == [site |-> Null, subcode |-> Null, ean |-> Null, name |-> Null, debug |-> FALSE]

HttpsPrefix == SchemeHttps \o <<":", "/", "/">>

\* the product page number i of the target site
ProductUrl(i) == HttpsPrefix \o BringoHost \o <<"/", "p", "/">> \o NatStr(i)

ExternalUrl == HttpsPrefix \o JumiaHost \o <<"/", "p", "/", "1">>

LookalikeHost == BringoHost \o <<".", "e", "v", "i", "l", ".", "i", "o">>

LookalikeUrl == HttpsPrefix \o LookalikeHost \o <<"/", "p", "/", "2">>

DuckRedirect == <<"/", "/">> \o DuckHost \o <<"/", "l", "/", "?", "u", "d", "d", "g", "=">>

\* the href values of one result page with every kind of link: an external
\* link, a redirect to product 1, a redirect with a malformed escape, a
\* relative link, a redirect to an external page and a protocol-relative
\* link to a host that merely contains the domain
MixedHrefs ==
    << ExternalUrl,
       DuckRedirect \o <<"h", "t", "t", "p", "s", "%", "3", "A", "%", "2", "F", "%", "2", "F">>
                    \o BringoHost \o <<"%", "2", "F", "p", "%", "2", "F", "1", "&", "r", "u", "t", "=", "a">>,
       DuckRedirect \o <<"%", "2", "5", "z", "z">>,
       <<"/", "y", ".", "j", "s">>,
       DuckRedirect \o <<"h", "t", "t", "p", "s", "%", "3", "A", "%", "2", "F", "%", "2", "F">>
                    \o JumiaHost \o <<"%", "2", "F", "p", "%", "2", "F", "1">>,
       From(LookalikeUrl, 7) >>

\* a result page with MaxLinks direct links to product pages, in rank order
LongHrefs == [i \in 1..MaxLinks |-> ProductUrl(i)]

\* the result pages the search engine may answer with
HrefLists == {<< >>, MixedHrefs, LongHrefs}

EmptyPage == [ok |-> FALSE, text |-> << >>, ogImage |-> Null, imgSrc |-> Null,
              ogTitle |-> Null, title |-> Null]

LabelText == <<"N", "u", "m", "é", "r", "o", " ", "d", "u", " ", "p", "r", "o", "d", "u", "i", "t", ":", " ">>

RootImage == <<"/", "i", "m", "g", "/", "x", ".", "j", "p", "g">>

CdnImage == <<"/", "/", "c", "d", "n", ".", "i", "o", "/", "x", ".", "j", "p", "g">>

\* the product page: labelled subcode, the EAN, the title of the name, a root-relative og:image
PgProduct ==
    [ok |-> TRUE, text |-> LabelText \o SubcodeText \o <<" ">> \o EanText,
     ogImage |-> RootImage, imgSrc |-> Null,
     ogTitle |-> <<"S", "a", "l", "o", "n", " ", "B", "a", "s", " ", "L", "a", "n", "k", "a">>,
     title |-> <<"B", "r", "i", "n", "g", "o">>]

\* the same page without any image
PgNoImage == [PgProduct EXCEPT !.ogImage = Null]

\* another product, answered with an error status: its text holds neither
\* token, its title shares one word of three with the name
PgOther ==
    [ok |-> FALSE, text |-> <<"r", "e", "f", " ", "6", "9", "4", "0", "6">>,
     ogImage |-> HttpsPrefix \o <<"c", "d", "n", ".", "i", "o", "/", "o", ".", "j", "p", "g">>,
     imgSrc |-> Null, ogTitle |-> Null,
     title |-> <<"T", "a", "b", "l", "e", " ", "L", "a", "n", "k", "a">>]

\* the subcode inside a longer number, the EAN, two words of the name in the
\* title, and a protocol-relative image in an img element
PgProto ==
    [ok |-> TRUE, text |-> <<"1">> \o SubcodeText \o <<"0", " ">> \o EanText,
     ogImage |-> Null, imgSrc |-> CdnImage, ogTitle |-> Null,
     title |-> <<"s", "a", "l", "o", "n", " ", "l", "a", "n", "k", "a">>]

\* the product page with an absolute og:image
PgAbs == [PgProduct EXCEPT !.ogImage = HttpsPrefix \o From(CdnImage, 3)]

\* The outcomes of fetching a candidate: the fetch rejects, or it resolves
\* and reading the body rejects, or the body is one of the pages.
FetchThrows == "fetch throws"
TextThrows == "text throws"

Outcome(kind, page) == [kind |-> kind, page |-> page]

\* the outcomes the model lets a candidate URL have
Web(url) ==
    IF url = ProductUrl(1)
    THEN {Outcome(FetchThrows, EmptyPage), Outcome(TextThrows, EmptyPage),
          Outcome("page", PgOther), Outcome("page", PgNoImage), Outcome("page", PgProduct)}
    ELSE IF url = ProductUrl(2) THEN {Outcome("page", PgOther), Outcome("page", PgProto)}
    ELSE IF url = ProductUrl(MaxCandidates) \/ url = LookalikeUrl
    THEN {Outcome("page", PgOther), Outcome("page", PgAbs)}
    ELSE IF url = ProductUrl(MaxCandidates + 1) THEN {Outcome("page", PgProduct)}
    ELSE {Outcome("page", PgOther)}

(* ------------------------------------------------------------------ *)
(* The pure functions tabulated over the inputs above, so that a step  *)
(* looks a result up instead of recomputing it                         *)
(* ------------------------------------------------------------------ *)

\* every candidate list ddgLinks can return
CandidatesOf == [hrefs \in HrefLists |-> LinkPipeline(hrefs)]

AllCandidates == UNION {Range(CandidatesOf[hrefs]) : hrefs \in HrefLists}

AllPages == {o.page : o \in UNION {Web(url) : url \in AllCandidates}}

AllSubcodes == {trim(OrEmpty(v)) : v \in SubcodeValues}

AllEans == {trim(OrEmpty(v)) : v \in EanValues}

\* line 85: the cleaned name of every name parameter
QNameOf == [name \in {trim(OrEmpty(v)) : v \in NameValues} |-> cleanName(name)]

AllNames == {QNameOf[name] : name \in DOMAIN QNameOf}

ImageOf == [candidate \in AllCandidates, html \in AllPages |-> extractImage(candidate, html)]

SubcodeFound == [html \in AllPages, num \in AllSubcodes |-> containsProductNumber(html.text, num)]

EanFound == [html \in AllPages, ean \in AllEans |-> includes(html.text, ean)]

TitleOf == [html \in AllPages |-> extractTitle(html)]

ScoreOf == [qName \in AllNames, html \in AllPages |->
               similarity(tokens(qName), tokens(TitleOf[html]))]

(* ------------------------------------------------------------------ *)
(* State                                                               *)
(* ------------------------------------------------------------------ *)

VARIABLES
    req,        \* req[r]: the query parameters of request r as they arrived
    params,     \* params[r]: the constants site, subcode, ean, name, debug of fetch()
    term,       \* term[r]: the token of findByToken, the qName of findByName
    pc,         \* pc[r]: where the handler of request r is suspended
    stage,      \* stage[r]: the strategy block of fetch() that comes next (1, 2, 3; 4 = the final return)
    tried,      \* tried[r]: the array tried of fetch(), one entry per strategy that returned
    returned,   \* returned[r]: the values r that the strategies returned to fetch(), in order
    strat,      \* strat[r]: the strategy that is running
    results,    \* results[r]: the candidate list of the running strategy
    idx,        \* idx[r]: position of the for-loop in results
    stried,     \* stried[r]: the array tried of findByToken / findByName
    res,        \* res[r]: the response of the candidate fetch whose body is being read
    responses,  \* responses[r]: the responses the handler has returned
    net,        \* every outbound call made so far, in order
    engine,     \* the result pages the search engine can answer a query with
    upstream,   \* upstream[r]: what the outbound calls of request r answered, in order
    call        \* a call of one of the pure helpers on its own: its arguments and result

\* the variables of the request handler
handlerVars == <<req, params, term, pc, stage, tried, returned, strat, results, idx, stried, res,
                 responses, net, engine, upstream>>

vars == <<handlerVars, call>>

\* a variant of ReadParams that forgets to trim the identifiers
ReadParamsUntrimmed(q) ==
    [site    |-> IF Truthy(q.site) THEN q.site ELSE BringoHost,
     subcode |-> OrEmpty(q.subcode),
     ean     |-> OrEmpty(q.ean),
     name    |-> OrEmpty(q.name),
     debug   |-> q.debug]

\* lines 13-17: the request parameters as fetch() reads them
ReadParams(q) ==
    [site    |-> IF Truthy(q.site) THEN q.site ELSE BringoHost,
     subcode |-> trim(OrEmpty(q.subcode)),
     ean     |-> trim(OrEmpty(q.ean)),
     name    |-> trim(OrEmpty(q.name)),
     debug   |-> q.debug]

Site(r) == params[r].site
Subcode(r) == params[r].subcode
Ean(r) == params[r].ean
Name(r) == params[r].name
Debug(r) == params[r].debug

\* `site:${site} ${term}`
Query(site, t) == <<"s", "i", "t", "e", ":">> \o site \o <<" ">> \o t

(* ------------------------------------------------------------------ *)
(* Response bodies.  keys is the set of keys of the JSON object; a key *)
(* that is absent has an empty value here.                             *)
(* ------------------------------------------------------------------ *)

NullTag == "null"

Body(keys, error, imageUrl, productUrl, matchedBy, score, t) ==
    [keys |-> keys, error |-> error, imageUrl |-> imageUrl, productUrl |-> productUrl,
     matchedBy |-> matchedBy, score |-> score, tried |-> t]

\* j(body, status)
j(body, status) == [status |-> status, body |-> body]

ErrorBody ==
    Body({"error"}, "Provide subcode, ean or name.", Null, Null, NullTag, ScoreZero, << >>)

\* { imageUrl: null, productUrl: null, matchedBy: null, score: 0, tried }
NoMatchBody(t) ==
    Body({"imageUrl", "productUrl", "matchedBy", "score", "tried"}, "",
         Null, Null, NullTag, ScoreZero, t)

\* a variant of payload that reports the image as the product page
payloadImageAsProduct(m, debug) ==
    Body({"imageUrl", "productUrl", "matchedBy", "score"}
            \cup (IF debug THEN {"tried"} ELSE {}),
         "", m.imageUrl, m.imageUrl, m.matchedBy, m.score,
         IF debug THEN m.tried ELSE << >>)

\* a variant of payload that attaches the trace whatever the debug flag
payloadAlwaysTried(m, debug) ==
    Body({"imageUrl", "productUrl", "matchedBy", "score", "tried"},
         "", m.imageUrl, m.productUrl, m.matchedBy, m.score, m.tried)

\* okPayload(...).payload(debug)
payload(m, debug) ==
    Body({"imageUrl", "productUrl", "matchedBy", "score"}
            \cup (IF debug THEN {"tried"} ELSE {}),
         "", m.imageUrl, m.productUrl, m.matchedBy, m.score,
         IF debug THEN m.tried ELSE << >>)

\* the object okPayload returns
okPayload(imageUrl, productUrl, matchedBy, score, t) ==
    [ok |-> TRUE, tried |-> t, imageUrl |-> imageUrl, productUrl |-> productUrl,
     matchedBy |-> matchedBy, score |-> score]

NoRes == Outcome("none", EmptyPage)

\* what the search request answered: the hrefs of the result page
SearchAnswer(hrefs) == [kind |-> "search", hrefs |-> hrefs, outcome |-> NoRes]

\* what the fetch of a candidate answered
FetchAnswer(o) == [kind |-> "fetch", hrefs |-> << >>, outcome |-> o]

\* no helper is called on its own
NoCall == [fn |-> "none"]

(* ------------------------------------------------------------------ *)
(* Initial state                                                       *)
(* ------------------------------------------------------------------ *)

InitCommon ==
    /\ params = [r \in Reqs |-> ReadParams(NoRequest)]
    /\ term = [r \in Reqs |-> << >>]
    /\ stage = [r \in Reqs |-> 0]
    /\ tried = [r \in Reqs |-> << >>]
    /\ returned = [r \in Reqs |-> << >>]
    /\ strat = [r \in Reqs |-> "none"]
    /\ results = [r \in Reqs |-> << >>]
    /\ idx = [r \in Reqs |-> 0]
    /\ stried = [r \in Reqs |-> << >>]
    /\ res = [r \in Reqs |-> NoRes]
    /\ responses = [r \in Reqs |-> << >>]
    /\ net = << >>
    /\ upstream = [r \in Reqs |-> << >>]

\* one request has arrived; the other slot stays unused
Init ==
    /\ \E q \in Requests : req = [r \in Reqs |-> IF r = 1 THEN q ELSE NoRequest]
    /\ pc = [r \in Reqs |-> IF r = 1 THEN "start" ELSE "idle"]
    /\ InitCommon
    /\ engine = HrefLists
    /\ call = NoCall

(* ------------------------------------------------------------------ *)
(* fetch(request): the dispatcher                                      *)
(* ------------------------------------------------------------------ *)

\* the handler returns a response
Respond(r, response) ==
    /\ responses' = [responses EXCEPT ![r] = Append(@, response)]
    /\ pc' = [pc EXCEPT ![r] = "done"]

\* lines 12-23: read the parameters; 400 when no identifier is given
Receive(r) ==
    /\ pc[r] = "start"
    /\ LET p == ReadParams(req[r])
       IN  /\ params' = [params EXCEPT ![r] = p]
           /\ IF ~Truthy(p.subcode) /\ ~Truthy(p.ean) /\ ~Truthy(p.name)
              THEN /\ Respond(r, j(ErrorBody, 400))
                   /\ UNCHANGED <<stage, tried>>
              ELSE /\ pc' = [pc EXCEPT ![r] = "dispatch"]
                   /\ stage' = [stage EXCEPT ![r] = 1]
                   /\ tried' = [tried EXCEPT ![r] = << >>]
                   /\ UNCHANGED responses
    /\ UNCHANGED <<engine, upstream, call, req, term, returned, strat, results, idx, stried, res, net>>

\* the call of findByToken / findByName up to its first await: ddgLinks(q)
\* issues the search request
BeginStrategy(r, s, t) ==
    /\ pc' = [pc EXCEPT ![r] = "search"]
    /\ strat' = [strat EXCEPT ![r] = s]
    /\ term' = [term EXCEPT ![r] = t]
    /\ net' = Append(net, [req |-> r, kind |-> "search", strat |-> s,
                           target |-> Query(Site(r), t)])
    /\ UNCHANGED <<engine, upstream, call, req, params, stage, tried, returned, results, idx, stried, res, responses>>

\* a strategy block whose condition is false is passed over
SkipStrategy(r) ==
    /\ stage' = [stage EXCEPT ![r] = @ + 1]
    /\ UNCHANGED <<engine, upstream, call, req, params, term, pc, tried, returned, strat, results, idx, stried, res, responses, net>>

\* line 26
SubcodeApplies(r) == Truthy(Subcode(r))

\* a variant of the EAN guard without the format test
EanAppliesUnchecked(r) == Truthy(Ean(r))

\* line 35
EanApplies(r) == Truthy(Ean(r)) /\ IsEan(Ean(r))

\* line 44
NameApplies(r) == Truthy(Name(r))

TrySubcode(r) ==
    /\ pc[r] = "dispatch" /\ stage[r] = 1 /\ SubcodeApplies(r)
    /\ BeginStrategy(r, "subcode", Subcode(r))

SkipSubcode(r) ==
    /\ pc[r] = "dispatch" /\ stage[r] = 1 /\ ~SubcodeApplies(r)
    /\ SkipStrategy(r)

TryEan(r) ==
    /\ pc[r] = "dispatch" /\ stage[r] = 2 /\ EanApplies(r)
    /\ BeginStrategy(r, "ean", Ean(r))

SkipEan(r) ==
    /\ pc[r] = "dispatch" /\ stage[r] = 2 /\ ~EanApplies(r)
    /\ SkipStrategy(r)

TryName(r) ==
    /\ pc[r] = "dispatch" /\ stage[r] = 3 /\ NameApplies(r)
    /\ BeginStrategy(r, "name", QNameOf[Name(r)])

SkipName(r) ==
    /\ pc[r] = "dispatch" /\ stage[r] = 3 /\ ~NameApplies(r)
    /\ SkipStrategy(r)

\* line 50: no strategy matched
NoMatch(r) ==
    /\ pc[r] = "dispatch" /\ stage[r] = 4
    /\ Respond(r, j(NoMatchBody(tried[r]), 404))
    /\ UNCHANGED <<engine, upstream, call, req, params, term, stage, tried, returned, strat, results, idx, stried, res, net>>

\* a variant of StrategyMatched without the return: the response is produced
\* and the handler goes on to the next strategy block
StrategyMatchedFallsThrough(r, m) ==
    /\ returned' = [returned EXCEPT ![r] = Append(@, m)]
    /\ tried' = [tried EXCEPT ![r] = Append(@, m.tried)]
    /\ responses' = [responses EXCEPT ![r] = Append(@, j(payload(m, Debug(r)), 200))]
    /\ pc' = [pc EXCEPT ![r] = "dispatch"]
    /\ stage' = [stage EXCEPT ![r] = @ + 1]

\* a strategy returned r = {ok: true, ...}: tried.push(r.tried); return j(r.payload(debug), 200)
StrategyMatched(r, m) ==
    /\ returned' = [returned EXCEPT ![r] = Append(@, m)]
    /\ tried' = [tried EXCEPT ![r] = Append(@, m.tried)]
    /\ Respond(r, j(payload(m, Debug(r)), 200))
    /\ UNCHANGED stage

\* a variant of StrategyMissed with one tried array for all requests
StrategyMissedShared(r, t) ==
    /\ returned' = [returned EXCEPT ![r] = Append(@, [ok |-> FALSE, tried |-> t])]
    /\ tried' = [q \in Reqs |-> Append(tried[q], t)]
    /\ stage' = [stage EXCEPT ![r] = @ + 1]
    /\ pc' = [pc EXCEPT ![r] = "dispatch"]
    /\ UNCHANGED responses

\* a strategy returned {ok: false, tried}: tried.push(r.tried) and on to the next block
StrategyMissed(r, t) ==
    /\ returned' = [returned EXCEPT ![r] = Append(@, [ok |-> FALSE, tried |-> t])]
    /\ tried' = [tried EXCEPT ![r] = Append(@, t)]
    /\ stage' = [stage EXCEPT ![r] = @ + 1]
    /\ pc' = [pc EXCEPT ![r] = "dispatch"]
    /\ UNCHANGED responses

(* ------------------------------------------------------------------ *)
(* ddgLinks, findByToken, findByName                                   *)
(* ------------------------------------------------------------------ *)

\* line 164: the search request rejects; nothing catches it, so the
\* exception leaves findByToken / findByName and the handler itself
SearchFails(r) ==
    /\ pc[r] = "search"
    /\ pc' = [pc EXCEPT ![r] = "threw"]
    /\ UNCHANGED <<engine, upstream, call, req, params, term, stage, tried, returned, strat, results, idx, stried, res, responses, net>>

\* line 164: the search request resolves
SearchResponds(r) ==
    /\ pc[r] = "search"
    /\ pc' = [pc EXCEPT ![r] = "searchRead"]
    /\ UNCHANGED <<engine, upstream, call, req, params, term, stage, tried, returned, strat, results, idx, stried, res, responses, net>>

\* line 165: reading the result page rejects, uncaught as well
SearchReadFails(r) ==
    /\ pc[r] = "searchRead"
    /\ pc' = [pc EXCEPT ![r] = "threw"]
    /\ UNCHANGED <<engine, upstream, call, req, params, term, stage, tried, returned, strat, results, idx, stried, res, responses, net>>

\* lines 165-185 and 59 / 88-90: the result page is read, the candidates are
\* extracted and the loop over them begins
SearchReturns(r) ==
    /\ pc[r] = "searchRead"
    /\ \E hrefs \in engine :
          /\ results' = [results EXCEPT ![r] = CandidatesOf[hrefs]]
          /\ upstream' = [upstream EXCEPT ![r] = Append(@, SearchAnswer(hrefs))]
    /\ stried' = [stried EXCEPT ![r] = << >>]
    /\ idx' = [idx EXCEPT ![r] = 1]
    /\ pc' = [pc EXCEPT ![r] = "loop"]
    /\ UNCHANGED <<engine, call, req, params, term, stage, tried, returned, strat, res, responses, net>>

\* lines 63 / 94: the next candidate is fetched
FetchCandidate(r) ==
    /\ pc[r] = "loop"
    /\ idx[r] <= Len(results[r])
    /\ net' = Append(net, [req |-> r, kind |-> "fetch", strat |-> strat[r],
                           target |-> results[r][idx[r]]])
    /\ pc' = [pc EXCEPT ![r] = "fetch"]
    /\ UNCHANGED <<engine, upstream, call, req, params, term, stage, tried, returned, strat, results, idx, stried, res, responses>>

\* a variant of NextCandidate that tries the same candidate again
NextCandidateRetry(r) ==
    /\ idx' = idx
    /\ pc' = [pc EXCEPT ![r] = "loop"]
    /\ res' = [res EXCEPT ![r] = NoRes]

\* catch {}: on to the next candidate
NextCandidate(r) ==
    /\ idx' = [idx EXCEPT ![r] = @ + 1]
    /\ pc' = [pc EXCEPT ![r] = "loop"]
    /\ res' = [res EXCEPT ![r] = NoRes]

\* a variant of FetchFails whose try is around the loop: the strategy gives up
FetchFailsAborts(r) ==
    /\ pc[r] = "fetch"
    /\ Outcome(FetchThrows, EmptyPage) \in Web(results[r][idx[r]])
    /\ upstream' = [upstream EXCEPT ![r] = Append(@, FetchAnswer(Outcome(FetchThrows, EmptyPage)))]
    /\ StrategyMissed(r, stried[r])
    /\ UNCHANGED <<engine, call, req, params, term, strat, results, idx, stried, res, net>>

\* lines 63 / 94: the fetch rejects and the catch swallows it
FetchFails(r) ==
    /\ pc[r] = "fetch"
    /\ Outcome(FetchThrows, EmptyPage) \in Web(results[r][idx[r]])
    /\ upstream' = [upstream EXCEPT ![r] = Append(@, FetchAnswer(Outcome(FetchThrows, EmptyPage)))]
    /\ NextCandidate(r)
    /\ UNCHANGED <<engine, call, req, params, term, stage, tried, returned, strat, results, stried, responses, net>>

\* lines 63 / 94: the fetch resolves with a response
FetchResponds(r) ==
    /\ pc[r] = "fetch"
    /\ \E o \in Web(results[r][idx[r]]) :
          /\ o.kind # FetchThrows
          /\ res' = [res EXCEPT ![r] = o]
          /\ upstream' = [upstream EXCEPT ![r] = Append(@, FetchAnswer(o))]
    /\ pc' = [pc EXCEPT ![r] = "read"]
    /\ UNCHANGED <<engine, call, req, params, term, stage, tried, returned, strat, results, idx, stried, responses, net>>

\* lines 64 / 95: res.text() rejects and the catch swallows it
ReadFails(r) ==
    /\ pc[r] = "read"
    /\ res[r].kind = TextThrows
    /\ NextCandidate(r)
    /\ UNCHANGED <<engine, upstream, call, req, params, term, stage, tried, returned, strat, results, stried, responses, net>>

\* a variant of the accept callbacks that lets every page pass
AcceptAny(r, html) == TRUE

\* the accept callbacks of lines 27-29 and 36-38
Accept(r, html) ==
    IF strat[r] = "subcode" THEN SubcodeFound[html, term[r]]
    ELSE EanFound[html, term[r]]

\* the record findByToken pushes
TokenRecord(candidate, ok) == [candidate |-> candidate, reason |-> "token", ok |-> ok]

\* the record findByName pushes
NameRecord(candidate, title, score) == [candidate |-> candidate, title |-> title, score |-> score]

\* lines 64-78: findByToken reads the body of the candidate
ReadToken(r) ==
    /\ pc[r] = "read"
    /\ strat[r] \in {"subcode", "ean"}
    /\ res[r].kind = "page"
    /\ LET candidate == results[r][idx[r]]
           html      == res[r].page
           t         == Append(stried[r], TokenRecord(candidate, html.ok))
           imageUrl  == IF Accept(r, html) THEN ImageOf[candidate, html] ELSE Null
       IN  /\ stried' = [stried EXCEPT ![r] = t]
           /\ IF Truthy(imageUrl) /\ imageUrl # Threw
              THEN /\ StrategyMatched(r, okPayload(imageUrl, candidate, "subcode/ean", ScoreOne, t))
                   /\ UNCHANGED <<idx, res>>
              ELSE /\ NextCandidate(r)
                   /\ UNCHANGED <<stage, tried, returned, responses>>
    /\ UNCHANGED <<engine, upstream, call, req, params, term, strat, results, net>>

\* lines 95-119: findByName reads the body of the candidate; a hit breaks
\* the loop and is returned at once
ReadName(r) ==
    /\ pc[r] = "read"
    /\ strat[r] = "name"
    /\ res[r].kind = "page"
    /\ LET candidate == results[r][idx[r]]
           html      == res[r].page
           title     == TitleOf[html]
           score     == ScoreOf[term[r], html]
           t         == Append(stried[r], NameRecord(candidate, title, score))
           imageUrl  == IF AtLeastThreshold(score) THEN ImageOf[candidate, html] ELSE Null
       IN  /\ stried' = [stried EXCEPT ![r] = t]
           /\ IF Truthy(imageUrl) /\ imageUrl # Threw
              THEN /\ StrategyMatched(r, okPayload(imageUrl, candidate, "name", score, t))
                   /\ UNCHANGED <<idx, res>>
              ELSE /\ NextCandidate(r)
                   /\ UNCHANGED <<stage, tried, returned, responses>>
    /\ UNCHANGED <<engine, upstream, call, req, params, term, strat, results, net>>

\* lines 81 / 119: the candidates are exhausted, the strategy returns {ok: false, tried}
StrategyFails(r) ==
    /\ pc[r] = "loop"
    /\ idx[r] > Len(results[r])
    /\ StrategyMissed(r, stried[r])
    /\ UNCHANGED <<engine, upstream, call, req, params, term, strat, results, idx, stried, res, net>>

(* ------------------------------------------------------------------ *)
(* Specification                                                       *)
(* ------------------------------------------------------------------ *)

Next ==
    \E r \in Reqs :
        \/ Receive(r)
        \/ TrySubcode(r)
        \/ SkipSubcode(r)
        \/ TryEan(r)
        \/ SkipEan(r)
        \/ TryName(r)
        \/ SkipName(r)
        \/ NoMatch(r)
        \/ SearchFails(r)
        \/ SearchResponds(r)
        \/ SearchReadFails(r)
        \/ SearchReturns(r)
        \/ FetchCandidate(r)
        \/ FetchFails(r)
        \/ FetchResponds(r)
        \/ ReadFails(r)
        \/ ReadToken(r)
        \/ ReadName(r)
        \/ StrategyFails(r)

Spec == Init /\ [][Next]_vars

(* ------------------------------------------------------------------ *)
(* Two requests at once: the runtime runs one handler until it awaits  *)
(* and may then resume the other, so the steps above interleave.       *)
(* ------------------------------------------------------------------ *)

SubcodeRequest ==
    [site |-> Null, subcode |-> <<" ">> \o SubcodeText, ean |-> Null, name |-> Null, debug |-> TRUE]

EanRequest ==
    [site |-> Null, subcode |-> Null, ean |-> EanText, name |-> Null, debug |-> FALSE]

NameRequest ==
    [site |-> Null, subcode |-> Null, ean |-> Null, name |-> NameText, debug |-> TRUE]

\* both requests have arrived, one with a token and one with a name; the
\* search engine answers with short result pages
ConcurrentInit ==
    /\ \E q \in {SubcodeRequest, EanRequest} :
          req = [r \in Reqs |-> IF r = 1 THEN q ELSE NameRequest]
    /\ pc = [r \in Reqs |-> "start"]
    /\ InitCommon
    /\ engine = {<< >>, MixedHrefs}
    /\ call = NoCall

ConcurrentSpec == ConcurrentInit /\ [][Next]_vars

(* ------------------------------------------------------------------ *)
(* similarity on its own: one call with two token lists                *)
(* ------------------------------------------------------------------ *)

\* no request is being handled
HandlerIdle ==
    /\ req = [r \in Reqs |-> NoRequest]
    /\ pc = [r \in Reqs |-> "idle"]
    /\ InitCommon
    /\ engine = HrefLists

TokenWords == {<<"b", "a", "s">>, <<"l", "a", "n", "k", "a">>, <<"s", "a", "l", "o", "n">>}

\* the token lists of at most MaxTokens words, duplicates allowed
TokenLists == UNION {[1..n -> TokenWords] : n \in 0..MaxTokens}

SimilarityInit ==
    /\ HandlerIdle
    /\ call \in [fn : {"similarity"}, a : TokenLists, b : TokenLists,
                 out : {ScoreZero}, done : {FALSE}]

\* similarity(a, b) is called and returns
CallSimilarity ==
    /\ call.fn = "similarity"
    /\ ~call.done
    /\ call' = [call EXCEPT !.out = similarity(call.a, call.b), !.done = TRUE]
    /\ UNCHANGED handlerVars

SimilaritySpec == SimilarityInit /\ [][CallSimilarity]_vars

(* The subcode acceptance test on its own: page bodies made of an       *)
(* optional lead, an optional label in several spellings, and a number  *)
(* that is the subcode, contains it, falls short of it, or differs in   *)
(* case only.                                                           *)
BodyLeads == {<< >>, <<"r", "e", "f", " ">>}

BodyLabels ==
    {<< >>,
     LabelText,
     <<"N", "U", "M", "E", "R", "O", " ", "D", "U", " ", "P", "R", "O", "D", "U", "I", "T", " ">>,
     <<"N", "u", "m", "É", "r", "o", " ", " ", "d", "u", "\t", "p", "r", "o", "d", "u", "i", "t", ":">>}

MixedCaseCode == <<"A", "b", "1", "2">>

BodyNumbers ==
    {SubcodeText,
     <<"1">> \o SubcodeText \o <<"0">>,
     SubSeq(SubcodeText, 1, 5),
     <<"a", "B", "1", "2">>}

PageBodies == {l \o b \o n : l \in BodyLeads, b \in BodyLabels, n \in BodyNumbers}

ProductNumbers == {SubcodeText, MixedCaseCode, SubSeq(SubcodeText, 2, 5)}

ProductNumberInit ==
    /\ HandlerIdle
    /\ call \in [fn : {"containsProductNumber"}, html : PageBodies,
                 num : ProductNumbers, out : {FALSE}, done : {FALSE}]

\* containsProductNumber(html, num) is called and returns
CallContainsProductNumber ==
    /\ call.fn = "containsProductNumber"
    /\ ~call.done
    /\ call' = [call EXCEPT !.out = containsProductNumber(call.html, call.num),
                            !.done = TRUE]
    /\ UNCHANGED handlerVars

ProductNumberSpec == ProductNumberInit /\ [][CallContainsProductNumber]_vars

(* ------------------------------------------------------------------ *)
(* Vocabulary of the properties                                        *)
(* ------------------------------------------------------------------ *)

\* the handler of request r has returned a response
Responded(r) == Len(responses[r]) > 0

\* the response of request r
Response(r) == responses[r][1]

\* the handler of request r ended with an exception nothing caught
Uncaught(r) == pc[r] = "threw"

\* the outbound calls of request r, in the order they were made
NetOf(r) == SelectSeq(net, LAMBDA e : e.req = r)

\* the outbound calls request r made on behalf of strategy s
CallsOf(r, s) == {i \in DOMAIN net : net[i].req = r /\ net[i].strat = s}

\* position of a strategy in the priority order
Rank(s) == CASE s = "subcode" -> 1 [] s = "ean" -> 2 [] s = "name" -> 3 [] OTHER -> 0

\* a query parameter that is absent, empty or white space only
IsBlank(v) == v = Null \/ \A i \in DOMAIN v : IsSpace(v[i])

\* the request carries no identifier at all
NoIdentifier(r) == IsBlank(req[r].subcode) /\ IsBlank(req[r].ean) /\ IsBlank(req[r].name)

\* request r has arrived and its parameters have been read
Received(r) == pc[r] \notin {"idle", "start"}

\* an attempt record of the name strategy (the token strategies record a reason instead)
IsNameRecord(rec) == "title" \in DOMAIN rec

\* all attempt records of a list of traces, in order
RECURSIVE Flatten(_)
Flatten(traces) ==
    IF traces = << >> THEN << >> ELSE Head(traces) \o Flatten(Tail(traces))

(* ------------------------------------------------------------------ *)
(* C1: strategies run in the order subcode, EAN, name, and once a      *)
(* strategy has returned a match nothing further is invoked: the match *)
(* is the last value a strategy returned, the handler is done, the     *)
(* last outbound call is the fetch of the matched candidate, and when  *)
(* the subcode strategy matched no EAN or name call was made and no    *)
(* name attempt is in any trace.                                       *)
(* ------------------------------------------------------------------ *)
C1_StrategyPriority ==
    \A r \in Reqs :
        /\ \A i \in 1..(Len(NetOf(r)) - 1) :
              Rank(NetOf(r)[i].strat) <= Rank(NetOf(r)[i + 1].strat)
        /\ \A i \in DOMAIN returned[r] :
              returned[r][i].ok =>
                 /\ i = Len(returned[r])
                 /\ pc[r] = "done"
                 /\ NetOf(r)[Len(NetOf(r))].kind = "fetch"
                 /\ NetOf(r)[Len(NetOf(r))].target = returned[r][i].productUrl
                 /\ Len(tried[r]) = i
        /\ (/\ Len(returned[r]) >= 1
            /\ returned[r][1].ok
            /\ NetOf(r)[1].strat = "subcode")
              => /\ CallsOf(r, "ean") = {}
                 /\ CallsOf(r, "name") = {}
                 /\ \A rec \in Range(Flatten(tried[r])) : ~IsNameRecord(rec)
                 /\ \A rec \in Range(Response(r).body.tried) : ~IsNameRecord(rec)

\* a request with a subcode, a valid EAN and a name whose subcode strategy matched
C1_Witness ==
    \E r \in Reqs :
        /\ ~IsBlank(req[r].subcode) /\ ~IsBlank(req[r].name) /\ IsEan(trim(OrEmpty(req[r].ean)))
        /\ Len(returned[r]) = 1
        /\ returned[r][1].ok
        /\ Responded(r)

(* ------------------------------------------------------------------ *)
(* C2: a request whose subcode, ean and name are all absent or blank   *)
(* is answered 400 with an error body and makes no outbound call.      *)
(* ------------------------------------------------------------------ *)
C2_NoIdentifierIs400 ==
    \A r \in Reqs :
        NoIdentifier(r) =>
            /\ NetOf(r) = << >>
            /\ Received(r) =>
                  /\ pc[r] = "done"
                  /\ Len(responses[r]) = 1
                  /\ Response(r).status = 400
                  /\ Response(r).body.keys = {"error"}

\* a request with a white-space-only parameter and nothing else was answered 400
C2_Witness ==
    \E r \in Reqs :
        /\ NoIdentifier(r)
        /\ req[r].name # Null
        /\ Responded(r)
        /\ Response(r).status = 400

(* ------------------------------------------------------------------ *)
(* C3: no upstream failure reaches the caller: the handler never ends  *)
(* with an exception nothing caught, and a request with an identifier  *)
(* is answered 200 or 404.                                             *)
(* ------------------------------------------------------------------ *)
C3_NoUpstreamFailureEscapes ==
    \A r \in Reqs :
        /\ ~Uncaught(r)
        /\ (Responded(r) /\ ~NoIdentifier(r)) => Response(r).status \in {200, 404}

(* ------------------------------------------------------------------ *)
(* C4: every candidate that is fetched or recorded in a trace has a    *)
(* hostname that belongs to the target site of the request (the site   *)
(* itself or a subdomain of it).                                       *)
(* ------------------------------------------------------------------ *)
BelongsToSite(host, site) ==
    \/ host = site
    \/ /\ Len(host) > Len(site)
       /\ From(host, Len(host) - Len(site)) = <<".">> \o site

OnTargetSite(r, url) == BelongsToSite(ParseURL(url).hostname, Site(r))

C4_CandidatesOnTargetSite ==
    \A r \in Reqs :
        /\ \A i \in DOMAIN net :
              (net[i].req = r /\ net[i].kind = "fetch") => OnTargetSite(r, net[i].target)
        /\ \A rec \in Range(Flatten(tried[r])) \cup Range(stried[r]) :
              OnTargetSite(r, rec.candidate)

(* ------------------------------------------------------------------ *)
(* C5: when the ean value is not 12 to 14 digits (or is empty) the EAN *)
(* strategy makes no outbound call, the value is not reported as an    *)
(* error, and a request that ends without a match and has a name has   *)
(* run the name strategy.                                              *)
(* ------------------------------------------------------------------ *)
EanValue(r) == trim(OrEmpty(req[r].ean))

EanWellFormed(r) ==
    /\ Len(EanValue(r)) \in 12..14
    /\ \A i \in DOMAIN EanValue(r) : EanValue(r)[i] \in DigitSet

C5_InvalidEanSkipped ==
    \A r \in Reqs :
        ~EanWellFormed(r) =>
            /\ CallsOf(r, "ean") = {}
            /\ (Responded(r) /\ ~NoIdentifier(r)) =>
                  /\ Response(r).status # 400
                  /\ "error" \notin Response(r).body.keys
            /\ (Responded(r) /\ Response(r).status = 404 /\ ~IsBlank(req[r].name)) =>
                  CallsOf(r, "name") # {}
            /\ (~IsBlank(req[r].name) /\ IsBlank(req[r].subcode) /\ NetOf(r) # << >>) =>
                  NetOf(r)[1].strat = "name"

\* a request with a subcode, a malformed non-empty ean and a name went from the
\* subcode strategy to the name strategy and was answered
C5_Witness ==
    \E r \in Reqs :
        /\ ~IsBlank(req[r].ean)
        /\ ~EanWellFormed(r)
        /\ ~IsBlank(req[r].subcode)
        /\ CallsOf(r, "subcode") # {}
        /\ CallsOf(r, "name") # {}
        /\ Responded(r)

(* ------------------------------------------------------------------ *)
(* C6: a request with an identifier that completes has exactly one     *)
(* response: 200 with an image, the matched candidate as productUrl    *)
(* and matchedBy "subcode/ean" or "name" exactly when a strategy       *)
(* returned a match, and otherwise 404 with null fields, score 0 and a *)
(* trace.                                                              *)
(* ------------------------------------------------------------------ *)
SomeStrategyMatched(r) == \E i \in DOMAIN returned[r] : returned[r][i].ok

LastCall(r) == NetOf(r)[Len(NetOf(r))]

C6_ResponseShape ==
    \A r \in Reqs :
        /\ Len(responses[r]) <= 1
        /\ Responded(r) <=> pc[r] = "done"
        /\ (Responded(r) /\ ~NoIdentifier(r)) =>
              IF SomeStrategyMatched(r)
              THEN /\ Response(r).status = 200
                   /\ {"imageUrl", "productUrl", "matchedBy", "score"} \subseteq Response(r).body.keys
                   /\ Response(r).body.imageUrl # Null
                   /\ Response(r).body.imageUrl # << >>
                   /\ LastCall(r).kind = "fetch"
                   /\ Response(r).body.productUrl = LastCall(r).target
                   /\ Response(r).body.matchedBy =
                         (IF LastCall(r).strat = "name" THEN "name" ELSE "subcode/ean")
              ELSE /\ Response(r).status = 404
                   /\ Response(r).body.keys = {"imageUrl", "productUrl", "matchedBy", "score", "tried"}
                   /\ Response(r).body.imageUrl = Null
                   /\ Response(r).body.productUrl = Null
                   /\ Response(r).body.matchedBy = NullTag
                   /\ Response(r).body.score = ScoreZero

\* a request answered 200 by the name strategy after the subcode strategy returned no match
C6_Witness ==
    \E r \in Reqs :
        /\ Responded(r)
        /\ Response(r).status = 200
        /\ Response(r).body.matchedBy = "name"
        /\ Len(returned[r]) >= 2

(* ------------------------------------------------------------------ *)
(* C7: every candidate whose fetch was started has a record in the     *)
(* trace of its strategy, whatever the outcome: whenever no fetch of   *)
(* the request is in flight there are as many records as fetches.      *)
(* ------------------------------------------------------------------ *)
FetchesOf(r) == {i \in DOMAIN net : net[i].req = r /\ net[i].kind = "fetch"}

\* the traces of the strategies that returned, then the trace of the running one
RecordsOf(r) == Flatten(tried[r]) \o (IF pc[r] = "loop" THEN stried[r] ELSE << >>)

C7_EveryAttemptRecorded ==
    \A r \in Reqs :
        pc[r] \in {"loop", "dispatch", "done"} =>
            Cardinality(FetchesOf(r)) = Len(RecordsOf(r))

(* ------------------------------------------------------------------ *)
(* C8: the trace of a response covers every strategy that was invoked, *)
(* in order: on failure one trace per invoked strategy, on a success   *)
(* with the debug flag the attempts of the strategies that failed      *)
(* followed by those of the strategy that matched.                     *)
(* ------------------------------------------------------------------ *)
ReturnedTraces(r) == [i \in DOMAIN returned[r] |-> returned[r][i].tried]

SearchesOf(r) == {i \in DOMAIN net : net[i].req = r /\ net[i].kind = "search"}

C8_TraceCoversInvokedStrategies ==
    \A r \in Reqs :
        (Responded(r) /\ "tried" \in Response(r).body.keys) =>
            /\ Len(returned[r]) = Cardinality(SearchesOf(r))
            /\ IF Response(r).status = 404
               THEN Response(r).body.tried = ReturnedTraces(r)
               ELSE Response(r).body.tried = Flatten(ReturnedTraces(r))

(* ------------------------------------------------------------------ *)
(* C9 as stated: without the debug parameter no response carries a     *)
(* tried trace, success or no-match.                                   *)
(* ------------------------------------------------------------------ *)
C9_TraceOnlyWithDebug ==
    \A r \in Reqs :
        (Responded(r) /\ ~req[r].debug) => "tried" \notin Response(r).body.keys

(* ------------------------------------------------------------------ *)
(* C9 amended: a success response carries the tried trace exactly when *)
(* the debug parameter is present; a no-match response carries it      *)
(* whether or not the parameter is present; the 400 response never.    *)
(* ------------------------------------------------------------------ *)
C9_TraceOnSuccessOnlyWithDebug ==
    \A r \in Reqs :
        Responded(r) =>
            /\ Response(r).status = 200 => ("tried" \in Response(r).body.keys <=> req[r].debug)
            /\ Response(r).status = 404 => "tried" \in Response(r).body.keys
            /\ Response(r).status = 400 => "tried" \notin Response(r).body.keys

\* a success without the debug parameter, after attempts were recorded
C9_Witness ==
    \E r \in Reqs :
        /\ Responded(r)
        /\ Response(r).status = 200
        /\ ~req[r].debug
        /\ returned[r][Len(returned[r])].tried # << >>
        /\ "tried" \notin Response(r).body.keys

(* ------------------------------------------------------------------ *)
(* C10: the image URL of a match is the extracted value resolved       *)
(* against the candidate: protocol-relative ("//...") and absolute     *)
(* values unchanged, a root-relative value ("/...") prefixed with the  *)
(* origin of the candidate.                                            *)
(* ------------------------------------------------------------------ *)
\* the value the two image patterns captured on the page the match was read from
ExtractedImage(r) ==
    IF Truthy(res[r].page.ogImage) THEN res[r].page.ogImage ELSE res[r].page.imgSrc

C10_ImageUrlResolution ==
    \A r \in Reqs :
        (Responded(r) /\ Response(r).status = 200) =>
            IF startsWith(ExtractedImage(r), <<"/", "/">>)
            THEN Response(r).body.imageUrl = ExtractedImage(r)
            ELSE IF startsWith(ExtractedImage(r), <<"/">>)
            THEN Response(r).body.imageUrl =
                    ParseURL(Response(r).body.productUrl).origin \o ExtractedImage(r)
            ELSE Response(r).body.imageUrl = ExtractedImage(r)

(* ------------------------------------------------------------------ *)
(* C11: similarity is symmetric: for all token lists a and b the score *)
(* of (a, b) equals the score of (b, a).                               *)
(* ------------------------------------------------------------------ *)
C11_SimilaritySymmetric ==
    call.done => call.out = similarity(call.b, call.a)

\* a call with sets of different sizes that share a token
C11_Witness ==
    /\ call.done
    /\ Cardinality(Range(call.a)) < Cardinality(Range(call.b))
    /\ Len(call.a) > Cardinality(Range(call.a))
    /\ call.out.num > 0

(* ------------------------------------------------------------------ *)
(* C12: similarity is bounded: the score is the size of the            *)
(* intersection over max(1, sqrt(|A| * |B|)), it lies in [0, 1], it is *)
(* 0 when either set is empty or the sets are disjoint (both empty     *)
(* included, the divisor never being 0), and 1 for two identical       *)
(* non-empty sets.                                                     *)
(* ------------------------------------------------------------------ *)
SetA == Range(call.a)

SetB == Range(call.b)

\* the score num / sqrt(den2) is 0, is 1, is in [0, 1]
IsZero(score) == score.num = 0
IsOne(score) == score.num > 0 /\ score.num * score.num = score.den2
InUnitInterval(score) == score.num >= 0 /\ score.num * score.num <= score.den2

C12_SimilarityBounded ==
    call.done =>
        /\ call.out.den2 >= 1
        /\ call.out.num = Cardinality(SetA \cap SetB)
        /\ call.out.den2 = (IF SetA = {} \/ SetB = {} THEN 1
                            ELSE Cardinality(SetA) * Cardinality(SetB))
        /\ InUnitInterval(call.out)
        /\ (SetA = {} \/ SetB = {} \/ SetA \cap SetB = {}) => IsZero(call.out)
        /\ (SetA = SetB /\ SetA # {}) => IsOne(call.out)

\* the score of two empty lists is 0
C12_Witness ==
    /\ call.done
    /\ call.a = << >>
    /\ call.b = << >>
    /\ call.out = ScoreZero

(* ------------------------------------------------------------------ *)
(* The handler run on its own, from the first statement to the return, *)
(* against a given list of upstream answers: what fetch() computes     *)
(* when nothing else runs in between.                                  *)
(* ------------------------------------------------------------------ *)

\* the answers ran out before the handler returned
Pending == [status |-> 0, body |-> ErrorBody]

\* the condition of strategy block number n of fetch() (lines 26, 35, 44)
AppliesAlone(p, n) ==
    CASE n = 1 -> Truthy(p.subcode)
      [] n = 2 -> Truthy(p.ean) /\ IsEan(p.ean)
      [] n = 3 -> Truthy(p.name)

\* the score of line 97; p.qName is the cleaned name of line 85
AloneScore(p, html) == ScoreOf[p.qName, html]

AloneAccepts(p, n, html) ==
    CASE n = 1 -> SubcodeFound[html, p.subcode]
      [] n = 2 -> EanFound[html, p.ean]
      [] n = 3 -> AtLeastThreshold(AloneScore(p, html))

AloneHit(p, n, candidate, html) ==
    /\ AloneAccepts(p, n, html)
    /\ Truthy(ImageOf[candidate, html])
    /\ ImageOf[candidate, html] # Threw

AloneRecord(p, n, candidate, html) ==
    IF n = 3 THEN NameRecord(candidate, TitleOf[html], AloneScore(p, html))
    ELSE TokenRecord(candidate, html.ok)

AloneMatch(p, n, candidate, html, t) ==
    okPayload(ImageOf[candidate, html], candidate,
              IF n = 3 THEN "name" ELSE "subcode/ean",
              IF n = 3 THEN AloneScore(p, html) ELSE ScoreOne, t)

RECURSIVE AloneDispatch(_, _, _, _)
RECURSIVE AloneLoop(_, _, _, _, _, _, _)

\* the strategy blocks from number n on; all is the array tried of fetch()
AloneDispatch(p, n, all, answers) ==
    IF n = 4 THEN j(NoMatchBody(all), 404)
    ELSE IF ~AppliesAlone(p, n) THEN AloneDispatch(p, n + 1, all, answers)
    ELSE IF answers = << >> \/ Head(answers).kind # "search" THEN Pending
    ELSE AloneLoop(p, n, CandidatesOf[Head(answers).hrefs], 1, << >>, all, Tail(answers))

\* the loop over the candidates from position i on; t is the array tried of the strategy
AloneLoop(p, n, candidates, i, t, all, answers) ==
    IF i > Len(candidates) THEN AloneDispatch(p, n + 1, Append(all, t), answers)
    ELSE IF answers = << >> \/ Head(answers).kind # "fetch" THEN Pending
    ELSE IF Head(answers).outcome.kind # "page"
    THEN AloneLoop(p, n, candidates, i + 1, t, all, Tail(answers))
    ELSE IF AloneHit(p, n, candidates[i], Head(answers).outcome.page)
    THEN j(payload(AloneMatch(p, n, candidates[i], Head(answers).outcome.page,
                              Append(t, AloneRecord(p, n, candidates[i],
                                                    Head(answers).outcome.page))),
                   p.debug), 200)
    ELSE AloneLoop(p, n, candidates, i + 1,
                   Append(t, AloneRecord(p, n, candidates[i], Head(answers).outcome.page)),
                   all, Tail(answers))

\* lines 19-50 with the parameters p
RunWith(p, answers) ==
    IF ~Truthy(p.subcode) /\ ~Truthy(p.ean) /\ ~Truthy(p.name)
    THEN j(ErrorBody, 400)
    ELSE AloneDispatch([qName |-> QNameOf[p.name]] @@ p, 1, << >>, answers)

RunAlone(q, answers) == RunWith(ReadParams(q), answers)

\* the candidate pages request r fetched, in order, and what each fetch answered
FetchTargets(r) == SelectSeq(NetOf(r), LAMBDA e : e.kind = "fetch")

FetchAnswers(r) == SelectSeq(upstream[r], LAMBDA a : a.kind = "fetch")

SearchAnswers(r) == SelectSeq(upstream[r], LAMBDA a : a.kind = "search")

\* the targets of the fetches of request r that answered with a page
PagesRead(r) ==
    LET read == SelectSeq([i \in DOMAIN FetchAnswers(r) |-> i],
                          LAMBDA i : FetchAnswers(r)[i].outcome.kind = "page")
    IN  [k \in DOMAIN read |-> FetchTargets(r)[read[k]].target]

(* ------------------------------------------------------------------ *)
(* C13: requests are isolated: under every interleaving of two         *)
(* requests the response of each is the one it gets when run alone     *)
(* against the same upstream answers, its candidate list is the one    *)
(* its own search returned, and its trace records exactly the pages it *)
(* read itself.                                                        *)
(* ------------------------------------------------------------------ *)
C13_RequestsIsolated ==
    \A r \in Reqs :
        /\ Responded(r) => Response(r) = RunAlone(req[r], upstream[r])
        /\ pc[r] \in {"loop", "fetch", "read"} =>
              results[r] = CandidatesOf[SearchAnswers(r)[Len(SearchAnswers(r))].hrefs]
        /\ pc[r] \in {"loop", "dispatch", "done"} =>
              [i \in DOMAIN RecordsOf(r) |-> RecordsOf(r)[i].candidate] = PagesRead(r)

\* both requests were answered, differently, and their outbound calls interleaved
C13_Witness ==
    /\ \A r \in Reqs : Responded(r)
    /\ Response(1).status = 200
    /\ Response(2).status = 404
    /\ Response(2).body.tried # << << >> >>
    /\ \E i \in 1..(Len(net) - 2) :
          net[i].req = 1 /\ net[i + 1].req = 2 /\ net[i + 2].req = 1

(* ------------------------------------------------------------------ *)
(* The strategies a request invoked, numbered in the order of their    *)
(* search requests                                                     *)
(* ------------------------------------------------------------------ *)

SearchCalls(r) == SelectSeq(NetOf(r), LAMBDA e : e.kind = "search")

\* the name of the k-th strategy request r invoked
StrategyAt(r, k) == SearchCalls(r)[k].strat

\* the candidate list the search of the k-th strategy returned
CandidatesAt(r, k) == CandidatesOf[SearchAnswers(r)[k].hrefs]

\* the positions, among the fetches of request r, of those strategy s made
FetchesBy(r, s) == {i \in DOMAIN FetchTargets(r) : FetchTargets(r)[i].strat = s}

\* the pages strategy s fetched, in order
FetchedBy(r, s) ==
    LET calls == SelectSeq(FetchTargets(r), LAMBDA e : e.strat = s)
    IN  [i \in DOMAIN calls |-> calls[i].target]

\* the parameters of request r together with the cleaned name
OwnParams(r) == [qName |-> QNameOf[params[r].name]] @@ params[r]

\* the fetch at position i answered with a page that passes the test of
\* strategy number n and holds an image
Qualifies(r, i) ==
    /\ FetchAnswers(r)[i].outcome.kind = "page"
    /\ AloneHit(OwnParams(r), Rank(FetchTargets(r)[i].strat),
                FetchTargets(r)[i].target, FetchAnswers(r)[i].outcome.page)

\* the fetch at position i threw, or the read of its body did
CandidateThrew(r, i) == FetchAnswers(r)[i].outcome.kind \in {FetchThrows, TextThrows}

(* ------------------------------------------------------------------ *)
(* C14: a failure on one candidate never aborts a strategy: after a    *)
(* fetch or a body read throws the loop is at the next candidate, the  *)
(* handler is never left with that exception, a strategy reports       *)
(* failure only when it has fetched every candidate of its list, and   *)
(* then none of the pages it read qualified.                           *)
(* ------------------------------------------------------------------ *)
C14_CandidateFailureDoesNotAbort ==
    \A r \in Reqs :
        /\ pc[r] = "loop" => Cardinality(FetchesBy(r, strat[r])) = idx[r] - 1
        /\ Uncaught(r) => LastCall(r).kind = "search"
        /\ \A k \in DOMAIN returned[r] :
              ~returned[r][k].ok =>
                  /\ FetchedBy(r, StrategyAt(r, k)) = CandidatesAt(r, k)
                  /\ \A i \in FetchesBy(r, StrategyAt(r, k)) : ~Qualifies(r, i)

\* a strategy matched on a candidate after the fetch of an earlier one threw
C14_Witness ==
    \E r \in Reqs :
        /\ Responded(r)
        /\ Response(r).status = 200
        /\ \E i \in FetchesBy(r, LastCall(r).strat) :
              i < Len(FetchTargets(r)) /\ CandidateThrew(r, i)

(* ------------------------------------------------------------------ *)
(* C15: in every strategy invocation the pages fetched are a prefix of *)
(* the candidate list, in rank order (so no entry is fetched twice),   *)
(* at most one fetch of a request is in flight, and once a fetched     *)
(* page qualifies no further candidate is fetched.                     *)
(* ------------------------------------------------------------------ *)
IsPrefix(s, t) == Len(s) <= Len(t) /\ s = SubSeq(t, 1, Len(s))

\* the number of fetches of request r that have not answered yet
InFlight(r) == Len(FetchTargets(r)) - Len(FetchAnswers(r))

C15_FetchesArePrefixInRankOrder ==
    \A r \in Reqs :
        /\ \A k \in DOMAIN SearchAnswers(r) :
              IsPrefix(FetchedBy(r, StrategyAt(r, k)), CandidatesAt(r, k))
        /\ InFlight(r) = (IF pc[r] = "fetch" THEN 1 ELSE 0)
        /\ \A i \in DOMAIN FetchAnswers(r) :
              Qualifies(r, i) => i = Len(FetchTargets(r)) /\ pc[r] \in {"read", "done"}

\* a strategy matched on its second candidate or later and left the rest of its list alone
C15_Witness ==
    \E r \in Reqs :
        /\ Responded(r)
        /\ Response(r).status = 200
        /\ Len(FetchedBy(r, LastCall(r).strat)) >= 2
        /\ Len(FetchedBy(r, LastCall(r).strat)) < Len(results[r])
        /\ Len(SearchAnswers(r)) >= 2

(* ------------------------------------------------------------------ *)
(* C16: the name strategy returns the first candidate in rank order    *)
(* whose title scores at least 0.6 against the cleaned query and whose *)
(* page yields an image, with the score of that candidate; no          *)
(* candidate fetched before it does both, nothing is fetched after it, *)
(* and when the strategy fails no page it read did both.               *)
(* ------------------------------------------------------------------ *)
\* num / sqrt(den2) >= 3/5
ReachesSixTenths(score) == 25 * score.num * score.num >= 9 * score.den2

\* the page the fetch at position i answered with, and the page it asked for
PageAt(r, i) == FetchAnswers(r)[i].outcome.page

TargetAt(r, i) == FetchTargets(r)[i].target

\* the title of the page read at position i against the cleaned name of the request
TitleScore(r, i) == ScoreOf[QNameOf[params[r].name], PageAt(r, i)]

HasImage(r, i) ==
    /\ FetchAnswers(r)[i].outcome.kind = "page"
    /\ Truthy(ImageOf[TargetAt(r, i), PageAt(r, i)])

PassesGate(r, i) ==
    /\ FetchAnswers(r)[i].outcome.kind = "page"
    /\ ReachesSixTenths(TitleScore(r, i))

\* the value the name strategy returned to the handler, if it did
NameReturned(r) == {k \in DOMAIN returned[r] : StrategyAt(r, k) = "name"}

C16_NameThresholdThenFirstHit ==
    \A r \in Reqs : \A k \in NameReturned(r) :
        IF returned[r][k].ok
        THEN /\ returned[r][k].matchedBy = "name"
             /\ LastCall(r).strat = "name"
             /\ returned[r][k].productUrl = TargetAt(r, Len(FetchTargets(r)))
             /\ PassesGate(r, Len(FetchTargets(r)))
             /\ returned[r][k].score = TitleScore(r, Len(FetchTargets(r)))
             /\ returned[r][k].imageUrl =
                   ImageOf[TargetAt(r, Len(FetchTargets(r))), PageAt(r, Len(FetchTargets(r)))]
             /\ HasImage(r, Len(FetchTargets(r)))
             /\ \A i \in FetchesBy(r, "name") :
                   i < Len(FetchTargets(r)) => ~(PassesGate(r, i) /\ HasImage(r, i))
        ELSE \A i \in FetchesBy(r, "name") : ~(PassesGate(r, i) /\ HasImage(r, i))

\* the name strategy matched with a score below 1 after it passed over a
\* candidate that scored 1 and had no image, and left later candidates alone
C16_Witness ==
    \E r \in Reqs :
        /\ Responded(r)
        /\ Response(r).status = 200
        /\ Response(r).body.matchedBy = "name"
        /\ ~IsOne(Response(r).body.score)
        /\ Len(FetchedBy(r, "name")) < Len(results[r])
        /\ \E i \in FetchesBy(r, "name") :
              /\ i < Len(FetchTargets(r))
              /\ PassesGate(r, i)
              /\ IsOne(TitleScore(r, i))
              /\ ~HasImage(r, i)

(* ------------------------------------------------------------------ *)
(* C17: the subcode and EAN strategies return the first candidate in   *)
(* rank order whose page passes the acceptance test and yields an      *)
(* image, with matchedBy "subcode/ean" and score 1.0; every page read  *)
(* is in the trace, one that passes the test without an image          *)
(* included, and the loop goes on after it.                            *)
(* ------------------------------------------------------------------ *)
TokenStrategies == {"subcode", "ean"}

\* the page read at position i holds the token of the strategy that fetched it
HoldsToken(r, i) ==
    /\ FetchAnswers(r)[i].outcome.kind = "page"
    /\ IF FetchTargets(r)[i].strat = "subcode"
       THEN SubcodeFound[PageAt(r, i), params[r].subcode]
       ELSE EanFound[PageAt(r, i), params[r].ean]

\* the pages strategy s read: the targets of its fetches that answered with a page
PagesReadBy(r, s) ==
    LET read == SelectSeq([i \in DOMAIN FetchAnswers(r) |-> i],
                          LAMBDA i : /\ FetchTargets(r)[i].strat = s
                                     /\ FetchAnswers(r)[i].outcome.kind = "page")
    IN  [k \in DOMAIN read |-> TokenRecord(TargetAt(r, read[k]), PageAt(r, read[k]).ok)]

C17_TokenFirstMatchWins ==
    \A r \in Reqs : \A k \in DOMAIN returned[r] :
        StrategyAt(r, k) \in TokenStrategies =>
            /\ returned[r][k].tried = PagesReadBy(r, StrategyAt(r, k))
            /\ IF returned[r][k].ok
               THEN /\ returned[r][k].matchedBy = "subcode/ean"
                    /\ returned[r][k].score = ScoreOne
                    /\ LastCall(r).strat = StrategyAt(r, k)
                    /\ returned[r][k].productUrl = TargetAt(r, Len(FetchTargets(r)))
                    /\ HoldsToken(r, Len(FetchTargets(r)))
                    /\ HasImage(r, Len(FetchTargets(r)))
                    /\ returned[r][k].imageUrl =
                          ImageOf[TargetAt(r, Len(FetchTargets(r))), PageAt(r, Len(FetchTargets(r)))]
                    /\ \A i \in FetchesBy(r, StrategyAt(r, k)) :
                          i < Len(FetchTargets(r)) => ~(HoldsToken(r, i) /\ HasImage(r, i))
               ELSE \A i \in FetchesBy(r, StrategyAt(r, k)) : ~(HoldsToken(r, i) /\ HasImage(r, i))

\* a token strategy matched on a later candidate after a page that passed the
\* test without an image, and that page is in the trace
C17_Witness ==
    \E r \in Reqs :
        /\ Responded(r)
        /\ Response(r).status = 200
        /\ Response(r).body.matchedBy = "subcode/ean"
        /\ \E i \in FetchesBy(r, LastCall(r).strat) :
              /\ i < Len(FetchTargets(r))
              /\ HoldsToken(r, i)
              /\ ~HasImage(r, i)
              /\ \E rec \in Range(returned[r][Len(returned[r])].tried) :
                    rec.candidate = TargetAt(r, i)

(* ------------------------------------------------------------------ *)
(* C18: the candidate list is the first 8 (or all, if fewer) of the    *)
(* result links that pass the domain filter, in the order of the       *)
(* result page; a strategy invocation fetches only from that list and  *)
(* never more than 8 pages.                                            *)
(* ------------------------------------------------------------------ *)
\* the links of a result page, normalised and unwrapped, in page order
LinksOf(hrefs) == [i \in DOMAIN hrefs |-> Unwrap(FixProtocolRelative(hrefs[i]))]

\* the positions of the links that pass the domain filter
Passing(hrefs) == {i \in DOMAIN hrefs : DomainFilter(LinksOf(hrefs)[i])}

\* the position of the n-th link that passes
NthPassing(hrefs, n) ==
    CHOOSE i \in Passing(hrefs) : Cardinality({k \in Passing(hrefs) : k <= i}) = n

FirstEightPassing(hrefs) ==
    [n \in 1..(IF Cardinality(Passing(hrefs)) < 8 THEN Cardinality(Passing(hrefs)) ELSE 8) |->
        LinksOf(hrefs)[NthPassing(hrefs, n)]]

\* tabulated over the result pages
ExpectedCandidates == [hrefs \in HrefLists |-> FirstEightPassing(hrefs)]

PassingCount == [hrefs \in HrefLists |-> Cardinality(Passing(hrefs))]

C18_FirstEightInRankOrder ==
    \A r \in Reqs :
        /\ pc[r] \in {"loop", "fetch", "read"} =>
              results[r] = ExpectedCandidates[SearchAnswers(r)[Len(SearchAnswers(r))].hrefs]
        /\ \A k \in DOMAIN SearchAnswers(r) :
              /\ Len(FetchedBy(r, StrategyAt(r, k))) <= 8
              /\ IsPrefix(FetchedBy(r, StrategyAt(r, k)),
                          ExpectedCandidates[SearchAnswers(r)[k].hrefs])

\* a strategy went through a result page with more than 8 passing links and
\* gave up after 8 fetches
C18_Witness ==
    \E r \in Reqs : \E k \in DOMAIN returned[r] :
        /\ ~returned[r][k].ok
        /\ PassingCount[SearchAnswers(r)[k].hrefs] > 8
        /\ Len(FetchedBy(r, StrategyAt(r, k))) = 8

(* ------------------------------------------------------------------ *)
(* C19: every request with an identifier whose handler can take no     *)
(* further step has reached exactly one of two terminal states:        *)
(* Succeeded, with the response of the first match, or Exhausted,      *)
(* after every strategy whose identifier is present (and, for the EAN, *)
(* well-formed) has failed and none of the others was invoked.         *)
(* ------------------------------------------------------------------ *)
\* a step of the handler of request r
HandlerStep(r) ==
    \/ Receive(r) \/ TrySubcode(r) \/ SkipSubcode(r) \/ TryEan(r) \/ SkipEan(r)
    \/ TryName(r) \/ SkipName(r) \/ NoMatch(r) \/ SearchFails(r) \/ SearchResponds(r)
    \/ SearchReadFails(r) \/ SearchReturns(r) \/ FetchCandidate(r) \/ FetchFails(r)
    \/ FetchResponds(r) \/ ReadFails(r) \/ ReadToken(r) \/ ReadName(r) \/ StrategyFails(r)

\* the handler of request r was started and has nothing left to do
Ended(r) == pc[r] # "idle" /\ ~ENABLED HandlerStep(r)

Succeeded(r) ==
    /\ Len(responses[r]) = 1
    /\ Response(r).status = 200
    /\ returned[r] # << >>
    /\ returned[r][Len(returned[r])].ok
    /\ \A k \in 1..(Len(returned[r]) - 1) : ~returned[r][k].ok

\* the strategies whose identifier the request carries
Applicable(r) ==
    {s \in {"subcode"} : ~IsBlank(req[r].subcode)}
        \cup {s \in {"ean"} : EanWellFormed(r)}
        \cup {s \in {"name"} : ~IsBlank(req[r].name)}

Exhausted(r) ==
    /\ Len(responses[r]) = 1
    /\ Response(r).status = 404
    /\ \A k \in DOMAIN returned[r] : ~returned[r][k].ok
    /\ {StrategyAt(r, k) : k \in DOMAIN SearchCalls(r)} = Applicable(r)
    /\ Len(returned[r]) = Len(SearchCalls(r))

C19_EndsSucceededOrExhausted ==
    \A r \in Reqs :
        (Ended(r) /\ ~NoIdentifier(r)) => (Succeeded(r) # Exhausted(r))

(* ------------------------------------------------------------------ *)
(* C20: the label never changes the verdict of the subcode acceptance  *)
(* test: containsProductNumber(html, num) is true exactly when html    *)
(* contains num as a substring, compared without case, whether or not  *)
(* a label precedes it and whether or not it lies inside a longer run  *)
(* of digits.                                                          *)
(* ------------------------------------------------------------------ *)
\* p occurs in s at position i when case is ignored
OccursAt(s, i, p) ==
    /\ i + Len(p) - 1 <= Len(s)
    /\ \A k \in 1..Len(p) : LowerChar(s[i + k - 1]) = LowerChar(p[k])

OccursIgnoringCase(s, p) == \E i \in 1..Len(s) : OccursAt(s, i, p)

C20_LabelNeverChangesVerdict ==
    call.done => (call.out <=> OccursIgnoringCase(call.html, call.num))

\* a page was accepted whose label is followed by a longer run of digits
\* that contains the subcode
C20_Witness ==
    /\ call.done
    /\ call.out
    /\ call.num = SubcodeText
    /\ call.html = LabelText \o <<"1">> \o SubcodeText \o <<"0">>

====
